---- MODULE Spec2Model ----
(***************************************************************************)
(* Model of scanner.c: a bounded circular work queue guarded by one mutex  *)
(* and two condition variables, a pool of worker threads that expand       *)
(* directories, the in-flight counter used to detect termination, and the  *)
(* signal handler that clears the liveness flag and broadcasts.            *)
(*                                                                         *)
(* Strings are modelled as sequences of path components: <<"r", "d1">> is  *)
(* the path "r/d1", and a length is a number of components.                *)
(***************************************************************************)
EXTENDS Integers, Sequences, FiniteSets, TLC

\* scanner.c:14-16 (4096, 8 and 1000 there), scaled down so that the state
\* space is finite and small.  Every path of the trees below fits in a
\* buffer of MAX_PATH_LENGTH, as a path of the file system does.
MAX_PATH_LENGTH == 4
MAX_THREADS == 2
QUEUE_SIZE == 2

\* Saturation value of the history counter of completed handler runs.
MaxHandlerRuns == 2

\* Number of signals sent to the process from outside.
MaxExtSignals == 1

Main == 0
Workers == 1..MAX_THREADS
Procs == {Main} \cup Workers
Nobody == -1
Signals == {"SIGINT", "SIGTERM"}

Min(a, b) == IF a < b THEN a ELSE b

(***************************************************************************)
(* The file system the walk runs on: dirs maps every directory path to the *)
(* names readdir lists in it (without "." and ".."), files is the set of   *)
(* paths of the other entries, gone the entries on which lstat fails.      *)
(***************************************************************************)
RootPath == <<"r">>

\* root/{d1/{e1/}, d2/, d3/, d4/}: more sub-directories than queue slots.
TreeWide ==
    [dirs |-> (<<"r">> :> <<"d1", "d2", "d3", "d4">>)
              @@ (<<"r", "d1">> :> <<"e1">>)
              @@ (<<"r", "d2">> :> <<>>)
              @@ (<<"r", "d3">> :> <<>>)
              @@ (<<"r", "d4">> :> <<>>)
              @@ (<<"r", "d1", "e1">> :> <<>>),
     files |-> {},
     gone |-> {}]

\* root/{a.txt, sub/{b.txt}}
TreeScenario ==
    [dirs |-> (<<"r">> :> <<"a.txt", "sub">>)
              @@ (<<"r", "sub">> :> <<"b.txt">>),
     files |-> {<<"r", "a.txt">>, <<"r", "sub", "b.txt">>},
     gone |-> {}]

\* root/{x, sub/}: x is removed between readdir and lstat.
TreeGone ==
    [dirs |-> (<<"r">> :> <<"x", "sub">>)
              @@ (<<"r", "sub">> :> <<>>),
     files |-> {<<"r", "x">>},
     gone |-> {<<"r", "x">>}]

\* an empty root directory
TreeEmpty ==
    [dirs |-> (<<"r">> :> <<>>), files |-> {}, gone |-> {}]

\* the root path names a regular file
TreeFile ==
    [dirs |-> <<>>, files |-> {<<"r">>}, gone |-> {}]

Trees == {TreeWide, TreeScenario, TreeGone, TreeEmpty, TreeFile}

Entries(t) == (DOMAIN t.dirs) \cup t.files

\* lstat(path, &st) != -1
LstatOk(t, path) == path \in Entries(t) /\ path \notin t.gone

\* S_ISDIR(st.st_mode)
IsDir(t, path) == path \in DOMAIN t.dirs

\* opendir(path) != NULL
OpenDirOk(t, path) == path \in DOMAIN t.dirs

\* the entries readdir returns for an opened directory, in order
Listing(t, path) == <<".", "..">> \o t.dirs[path]

\* strncpy(dst, src, n) followed by a terminator: the first n characters
StrNCpy(src, n) == SubSeq(src, 1, Min(Len(src), n))

\* snprintf(full_path, MAX_PATH_LENGTH, "%s/%s", path, name)
SnPrintf(path, name) == StrNCpy(Append(path, name), MAX_PATH_LENGTH - 1)

VARIABLES
    tree,               \* the file system under argv[1]
    pc,                 \* position of main and of every worker thread
    paths, front, rear, count, waiting_threads, active_processes,
    mutex,              \* holder of work_queue.mutex, or Nobody
    not_empty,          \* threads blocked in pthread_cond_wait(&not_empty)
    not_full,           \* threads blocked in pthread_cond_wait(&not_full)
    running,            \* the liveness flag
    output_mutex,       \* holder of output_mutex, or Nobody
    output_file,        \* the lines written to the report so far, in order
    path,               \* worker_thread's path buffer, per thread
    dirpos,             \* number of entries readdir has returned, per thread
    active,             \* check_termination_condition's local, per thread
    lineno,             \* lines of the current record written, per thread
    pending,            \* signals generated and not yet delivered
    hpc,                \* position of each signal's handler
    created,            \* number of pthread_create calls that succeeded
    joined,             \* number of pthread_join calls that returned
    exit_code,          \* main's return value, -1 while it has not returned
    \* history variables
    pushLog,            \* paths queue_push was given and inserted, in order
    popLog,             \* paths queue_pop returned, in order
    extSignals,         \* number of external SIGINT/SIGTERM sent
    createFailed,       \* a pthread_create call has failed
    handlerRuns         \* completed runs of handle_signal, saturating

queueVars == <<paths, front, rear, count, waiting_threads>>
condVars == <<not_empty, not_full>>
outVars == <<output_mutex, output_file>>
localVars == <<path, dirpos, active, lineno>>
sigVars == <<pending, hpc, handlerRuns>>
mainVars == <<created, joined, exit_code, createFailed>>
histVars == <<pushLog, popLog, extSignals>>

vars == <<tree, pc, queueVars, active_processes, mutex, condVars, running,
          outVars, localVars, sigVars, mainVars, histVars>>

(***************************************************************************)
(* State after main has installed the handlers, run queue_init and opened  *)
(* the output file, and is about to call queue_push(argv[1]).              *)
(***************************************************************************)
Init ==
    /\ tree \in Trees
    /\ pc = [p \in Procs |-> IF p = Main THEN "push_lock" ELSE "unborn"]
    /\ paths = [i \in 0..(QUEUE_SIZE - 1) |-> <<>>]
    /\ front = 0
    /\ rear = -1
    /\ count = 0
    /\ waiting_threads = 0
    /\ active_processes = 0
    /\ mutex = Nobody
    /\ not_empty = {}
    /\ not_full = {}
    /\ running = 1
    /\ output_mutex = Nobody
    /\ output_file = <<>>
    /\ path = [p \in Workers |-> <<>>]
    /\ dirpos = [p \in Workers |-> 0]
    /\ active = [p \in Workers |-> 0]
    /\ lineno = [p \in Workers |-> 0]
    /\ pending = [s \in Signals |-> FALSE]
    /\ hpc = [s \in Signals |-> "idle"]
    /\ created = 0
    /\ joined = 0
    /\ exit_code = -1
    /\ pushLog = <<>>
    /\ popLog = <<>>
    /\ extSignals = 0
    /\ createFailed = FALSE
    /\ handlerRuns = 0

Goto(p, label) == pc' = [pc EXCEPT ![p] = label]

\* pthread_cond_signal(cv): wakes one of the threads blocked on cv, if any
CondSignal(cv, cv2) ==
    IF cv = {} THEN cv2 = cv ELSE \E q \in cv : cv2 = cv \ {q}

\* kill(getpid(), SIGTERM)
KillSelf == pending' = [pending EXCEPT !["SIGTERM"] = TRUE]

(***************************************************************************)
(* queue_push, called by main with argv[1] and by a worker with full_path. *)
(***************************************************************************)
\* the entry the worker's readdir loop is looking at
Entry(w) == Listing(tree, path[w])[dirpos[w]]

FullPath(w) == SnPrintf(path[w], Entry(w))

PushArg(p) == IF p = Main THEN RootPath ELSE FullPath(p)

PushReturn(p) == IF p = Main THEN "m_create" ELSE "w_readdir"

\* the capacity test off by one
PushMustWait_OffByOne(c, r) == c > QUEUE_SIZE /\ r = 1

\* line 66: while (queue->count >= QUEUE_SIZE && running)
PushMustWait(c, r) == c >= QUEUE_SIZE /\ r = 1

\* the liveness test after the wait loop left out
PushGivesUp_Never(r) == FALSE

\* line 70: if (!running)
PushGivesUp(r) == r = 0

\* the increment of rear skipping a slot
NextRear_Skip(r) == (r + 2) % QUEUE_SIZE

\* the increment of rear without the wrap-around
NextRear_NoWrap(r) == r + 1

\* line 75: queue->rear = (queue->rear + 1) % QUEUE_SIZE
NextRear(r) == (r + 1) % QUEUE_SIZE

push_lock(p) ==
    /\ pc[p] = "push_lock"
    /\ mutex = Nobody
    /\ mutex' = p
    /\ Goto(p, "push_while")
    /\ UNCHANGED <<tree, queueVars, active_processes, condVars, running,
                   outVars, localVars, sigVars, mainVars, histVars>>

push_while(p) ==
    /\ pc[p] = "push_while"
    /\ IF PushMustWait(count, running)
         THEN Goto(p, "push_wait")
         ELSE Goto(p, "push_if")
    /\ UNCHANGED <<tree, queueVars, active_processes, mutex, condVars, running,
                   outVars, localVars, sigVars, mainVars, histVars>>

\* pthread_cond_wait(&queue->not_full, &queue->mutex): release and block
push_wait(p) ==
    /\ pc[p] = "push_wait"
    /\ mutex' = Nobody
    /\ not_full' = not_full \cup {p}
    /\ Goto(p, "push_relock")
    /\ UNCHANGED <<tree, queueVars, active_processes, not_empty, running,
                   outVars, localVars, sigVars, mainVars, histVars>>

\* pthread_cond_wait returns: woken, and the mutex re-acquired
push_relock(p) ==
    /\ pc[p] = "push_relock"
    /\ p \notin not_full
    /\ mutex = Nobody
    /\ mutex' = p
    /\ Goto(p, "push_while")
    /\ UNCHANGED <<tree, queueVars, active_processes, condVars, running,
                   outVars, localVars, sigVars, mainVars, histVars>>

push_if(p) ==
    /\ pc[p] = "push_if"
    /\ IF PushGivesUp(running)
         THEN /\ mutex' = Nobody
              /\ Goto(p, PushReturn(p))
         ELSE /\ Goto(p, "push_insert")
              /\ UNCHANGED mutex
    /\ UNCHANGED <<tree, queueVars, active_processes, condVars, running,
                   outVars, localVars, sigVars, mainVars, histVars>>

push_insert(p) ==
    /\ pc[p] = "push_insert"
    /\ rear' = NextRear(rear)
    /\ paths' = [paths EXCEPT ![rear'] = StrNCpy(PushArg(p), MAX_PATH_LENGTH - 1)]
    /\ count' = count + 1
    /\ pushLog' = Append(pushLog, PushArg(p))
    /\ CondSignal(not_empty, not_empty')
    /\ mutex' = Nobody
    /\ Goto(p, PushReturn(p))
    /\ UNCHANGED <<tree, front, waiting_threads, active_processes, not_full,
                   running, outVars, localVars, sigVars, mainVars,
                   popLog, extSignals>>

(***************************************************************************)
(* check_termination_condition and queue_pop.                              *)
(***************************************************************************)
\* line 56: if (active == 0 && queue->count == 0)
TermCond(a, c) == a = 0 /\ c = 0

\* the liveness test of the wait loop inverted
PopMustWait_Inverted(c, r) == c = 0 /\ r = 0

\* line 89: while (queue->count == 0 && running)
PopMustWait(c, r) == c = 0 /\ r = 1

\* line 96: if (queue->count == 0)
PopReturnsEmpty(c) == c = 0

\* the front cursor left where it is
NextFront_Stuck(f) == f

\* line 102: queue->front = (queue->front + 1) % QUEUE_SIZE
NextFront(f) == (f + 1) % QUEUE_SIZE

pop_lock(w) ==
    /\ pc[w] = "pop_lock"
    /\ mutex = Nobody
    /\ mutex' = w
    /\ waiting_threads' = waiting_threads + 1
    /\ Goto(w, "pop_while")
    /\ UNCHANGED <<tree, paths, front, rear, count, active_processes, condVars,
                   running, outVars, localVars, sigVars, mainVars, histVars>>

pop_while(w) ==
    /\ pc[w] = "pop_while"
    /\ IF PopMustWait(count, running)
         THEN Goto(w, "pop_check")
         ELSE Goto(w, "pop_after")
    /\ UNCHANGED <<tree, queueVars, active_processes, mutex, condVars, running,
                   outVars, localVars, sigVars, mainVars, histVars>>

\* line 90: check_termination_condition(queue), the mutex held
pop_check(w) ==
    /\ pc[w] = "pop_check"
    /\ IF TermCond(active_processes, count)
         THEN KillSelf
         ELSE UNCHANGED pending
    /\ Goto(w, "pop_wait")
    /\ UNCHANGED <<tree, queueVars, active_processes, mutex, condVars, running,
                   outVars, localVars, hpc, handlerRuns, mainVars,
                   histVars>>

\* pthread_cond_wait(&queue->not_empty, &queue->mutex): release and block
pop_wait(w) ==
    /\ pc[w] = "pop_wait"
    /\ mutex' = Nobody
    /\ not_empty' = not_empty \cup {w}
    /\ Goto(w, "pop_relock")
    /\ UNCHANGED <<tree, queueVars, active_processes, not_full, running,
                   outVars, localVars, sigVars, mainVars, histVars>>

pop_relock(w) ==
    /\ pc[w] = "pop_relock"
    /\ w \notin not_empty
    /\ mutex = Nobody
    /\ mutex' = w
    /\ Goto(w, "pop_while")
    /\ UNCHANGED <<tree, queueVars, active_processes, condVars, running,
                   outVars, localVars, sigVars, mainVars, histVars>>

\* lines 94-107: returns 0 to line 147 ("w_break") or 1 to line 151 ("w_inc")
pop_after(w) ==
    /\ pc[w] = "pop_after"
    /\ waiting_threads' = waiting_threads - 1
    /\ mutex' = Nobody
    /\ IF PopReturnsEmpty(count)
         THEN /\ Goto(w, "w_break")
              /\ UNCHANGED <<paths, front, rear, count, not_full, path, popLog>>
         ELSE /\ path' = [path EXCEPT ![w] = StrNCpy(paths[front], MAX_PATH_LENGTH)]
              /\ front' = NextFront(front)
              /\ count' = count - 1
              /\ popLog' = Append(popLog, path'[w])
              /\ CondSignal(not_full, not_full')
              /\ Goto(w, "w_inc")
              /\ UNCHANGED <<paths, rear>>
    /\ UNCHANGED <<tree, active_processes, not_empty, running, outVars,
                   dirpos, active, lineno, sigVars, mainVars,
                   pushLog, extSignals>>

(***************************************************************************)
(* process_file and worker_thread.                                         *)
(***************************************************************************)
\* the record process_file writes for a path
Record(t, p) ==
    [path |-> StrNCpy(p, MAX_PATH_LENGTH - 1),
     type |-> IF IsDir(t, p) THEN "Directory" ELSE "Regular File"]

\* lines 130-136: the fprintf calls of one record block, in order
RecordLines ==
    <<"Path", "Size", "Type", "Permissions", "Last Modified", "Separator">>

\* one fprintf call: stdio writes the line of record rec as a whole
Line(rec, n) == [rec |-> rec, field |-> RecordLines[n]]

\* the test of the output mutex left out
OutputMutexFree_Ignored(m) == TRUE

\* line 129: pthread_mutex_lock(&output_mutex) returns once nobody holds it
OutputMutexFree(m) == m = Nobody

\* line 146: while (running)
w_loop(w) ==
    /\ pc[w] = "w_loop"
    /\ IF running = 1
         THEN Goto(w, "pop_lock") /\ UNCHANGED path
         ELSE Goto(w, "done") /\ path' = [path EXCEPT ![w] = <<>>]
    /\ UNCHANGED <<tree, queueVars, active_processes, mutex, condVars, running,
                   outVars, dirpos, active, lineno, sigVars, mainVars,
                   histVars>>

\* lines 147-148 and 182: queue_pop returned 0, break and return NULL
w_break(w) ==
    /\ pc[w] = "w_break"
    /\ Goto(w, "done")
    /\ path' = [path EXCEPT ![w] = <<>>]
    /\ UNCHANGED <<tree, queueVars, active_processes, mutex, condVars, running,
                   outVars, dirpos, active, lineno, sigVars, mainVars,
                   histVars>>

\* the registration left out
IncActive_Forgotten(a) == a

\* line 151: atomic_fetch_add(&work_queue.active_processes, 1)
IncActive(a) == a + 1

\* the deregistration left out
DecActive_Forgotten(a) == a

\* line 178: atomic_fetch_sub(&work_queue.active_processes, 1)
DecActive(a) == a - 1

\* lines 151-154: register as in-flight, then opendir(path)
w_inc(w) ==
    /\ pc[w] = "w_inc"
    /\ active_processes' = IncActive(active_processes)
    /\ IF OpenDirOk(tree, path[w])
         THEN Goto(w, "w_readdir")
         ELSE Goto(w, "w_dec")
    /\ UNCHANGED <<tree, queueVars, mutex, condVars, running,
                   outVars, localVars, sigVars, mainVars, histVars>>

\* lines 156-167: the loop test, the "." and ".." filter, snprintf and lstat
w_readdir(w) ==
    /\ pc[w] = "w_readdir"
    /\ IF dirpos[w] >= Len(Listing(tree, path[w])) \/ running = 0
         THEN /\ dirpos' = [dirpos EXCEPT ![w] = 0]
              /\ Goto(w, "w_dec")
         ELSE /\ dirpos' = [dirpos EXCEPT ![w] = dirpos[w] + 1]
              /\ LET name == Listing(tree, path[w])[dirpos[w] + 1]
                 IN  IF name \in {".", ".."}
                        \/ ~LstatOk(tree, SnPrintf(path[w], name))
                       THEN Goto(w, "w_readdir")
                       ELSE Goto(w, "pf_lock")
    /\ UNCHANGED <<tree, queueVars, active_processes, mutex, condVars, running,
                   outVars, path, active, lineno, sigVars, mainVars,
                   histVars>>

\* lines 171-173, after process_file has returned
AfterProcessFile(w) ==
    IF IsDir(tree, FullPath(w)) THEN "push_lock" ELSE "w_readdir"

\* lines 118-129: lstat, then pthread_mutex_lock(&output_mutex)
pf_lock(w) ==
    /\ pc[w] = "pf_lock"
    /\ IF ~LstatOk(tree, FullPath(w))
         THEN /\ Goto(w, AfterProcessFile(w))
              /\ UNCHANGED output_mutex
         ELSE /\ OutputMutexFree(output_mutex)
              /\ output_mutex' = w
              /\ Goto(w, "pf_write")
    /\ UNCHANGED <<tree, queueVars, active_processes, mutex, condVars, running,
                   output_file, localVars, sigVars, mainVars, histVars>>

\* lines 130-139: the next fprintf of the record block; after the last one
\* fflush and pthread_mutex_unlock(&output_mutex)
pf_write(w) ==
    /\ pc[w] = "pf_write"
    /\ LET n == lineno[w] + 1
       IN  /\ output_file' =
                  Append(output_file, Line(Record(tree, FullPath(w)), n))
           /\ IF n = Len(RecordLines)
                THEN /\ lineno' = [lineno EXCEPT ![w] = 0]
                     /\ output_mutex' = Nobody
                     /\ Goto(w, AfterProcessFile(w))
                ELSE /\ lineno' = [lineno EXCEPT ![w] = n]
                     /\ UNCHANGED <<output_mutex, pc>>
    /\ UNCHANGED <<tree, queueVars, active_processes, mutex, condVars, running,
                   path, dirpos, active, sigVars, mainVars, histVars>>

\* lines 175-178: closedir, deregister
w_dec(w) ==
    /\ pc[w] = "w_dec"
    /\ active_processes' = DecActive(active_processes)
    /\ Goto(w, "w_check")
    /\ UNCHANGED <<tree, queueVars, mutex, condVars, running,
                   outVars, localVars, sigVars, mainVars, histVars>>

\* line 179 calling line 55: int active = atomic_load(...), no mutex held
w_check(w) ==
    /\ pc[w] = "w_check"
    /\ active' = [active EXCEPT ![w] = active_processes]
    /\ Goto(w, "w_check2")
    /\ UNCHANGED <<tree, queueVars, active_processes, mutex, condVars, running,
                   outVars, path, dirpos, lineno, sigVars, mainVars,
                   histVars>>

\* line 179 calling lines 56-60: queue->count is read without the mutex
w_check2(w) ==
    /\ pc[w] = "w_check2"
    /\ IF TermCond(active[w], count)
         THEN KillSelf
         ELSE UNCHANGED pending
    /\ active' = [active EXCEPT ![w] = 0]
    /\ Goto(w, "w_loop")
    /\ UNCHANGED <<tree, queueVars, active_processes, mutex, condVars, running,
                   outVars, path, dirpos, lineno, hpc, handlerRuns, mainVars,
                   histVars>>

(***************************************************************************)
(* main, after its queue_push(argv[1]) has returned.                       *)
(***************************************************************************)
ProcessAlive == exit_code = -1

\* line 205: pthread_create succeeds
m_create_ok ==
    /\ pc[Main] = "m_create"
    /\ created < MAX_THREADS
    /\ created' = created + 1
    /\ pc' = [pc EXCEPT ![created + 1] = "w_loop",
                        ![Main] = IF created + 1 = MAX_THREADS
                                    THEN "m_join" ELSE "m_create"]
    /\ UNCHANGED <<tree, queueVars, active_processes, mutex, condVars, running,
                   outVars, localVars, sigVars, joined, exit_code,
                   createFailed, histVars>>

\* lines 205-209: pthread_create fails
m_create_fail ==
    /\ pc[Main] = "m_create"
    /\ created < MAX_THREADS
    /\ running' = 0
    /\ createFailed' = TRUE
    /\ Goto(Main, "m_join")
    /\ UNCHANGED <<tree, queueVars, active_processes, mutex, condVars,
                   outVars, localVars, sigVars, created, joined, exit_code,
                   histVars>>

\* line 213 on a thread that was created: blocks until it has returned
m_join ==
    /\ pc[Main] = "m_join"
    /\ joined < created
    /\ pc[joined + 1] = "done"
    /\ joined' = joined + 1
    /\ UNCHANGED <<tree, pc, queueVars, active_processes, mutex, condVars,
                   running, outVars, localVars, sigVars, created, exit_code,
                   createFailed, histVars>>

\* line 213 on a thread_pool slot pthread_create never filled: the call
\* either fails and is ignored, or the process dies
m_join_uncreated ==
    /\ pc[Main] = "m_join"
    /\ created <= joined
    /\ joined < MAX_THREADS
    /\ \/ /\ joined' = joined + 1
          /\ UNCHANGED <<pc, exit_code>>
       \/ /\ exit_code' = 139
          /\ Goto(Main, "crashed")
          /\ UNCHANGED joined
    /\ UNCHANGED <<tree, queueVars, active_processes, mutex, condVars,
                   running, outVars, localVars, sigVars, created,
                   createFailed, histVars>>

\* lines 216-222
m_exit ==
    /\ pc[Main] = "m_join"
    /\ joined = MAX_THREADS
    /\ exit_code' = 0
    /\ Goto(Main, "exited")
    /\ UNCHANGED <<tree, queueVars, active_processes, mutex, condVars,
                   running, outVars, localVars, sigVars, created, joined,
                   createFailed, histVars>>

(***************************************************************************)
(* Signals.  handle_signal is installed for SIGINT and SIGTERM; the two    *)
(* handlers can run at any point of any thread, also at the same time.     *)
(***************************************************************************)
\* an operator interrupt, or a kill from another process
ExternalSignal(s) ==
    /\ ProcessAlive
    /\ pending' = [pending EXCEPT ![s] = TRUE]
    /\ extSignals < MaxExtSignals
    /\ extSignals' = extSignals + 1
    /\ UNCHANGED <<tree, pc, queueVars, active_processes, mutex, condVars,
                   running, outVars, localVars, hpc, handlerRuns, mainVars,
                   pushLog, popLog>>

\* line 111: the signal is delivered and the handler clears the flag
h_running(s) ==
    /\ ProcessAlive
    /\ pending[s]
    /\ hpc[s] = "idle"
    /\ pending' = [pending EXCEPT ![s] = FALSE]
    /\ running' = 0
    /\ hpc' = [hpc EXCEPT ![s] = "h_not_empty"]
    /\ UNCHANGED <<tree, pc, queueVars, active_processes, mutex, condVars,
                   outVars, localVars, handlerRuns, mainVars, histVars>>

\* line 112: pthread_cond_broadcast(&work_queue.not_empty)
h_not_empty(s) ==
    /\ ProcessAlive
    /\ hpc[s] = "h_not_empty"
    /\ not_empty' = {}
    /\ hpc' = [hpc EXCEPT ![s] = "h_not_full"]
    /\ UNCHANGED <<tree, pc, queueVars, active_processes, mutex, not_full,
                   running, outVars, localVars, pending, handlerRuns,
                   mainVars, histVars>>

\* line 113: pthread_cond_broadcast(&work_queue.not_full), and return
h_not_full(s) ==
    /\ ProcessAlive
    /\ hpc[s] = "h_not_full"
    /\ not_full' = {}
    /\ hpc' = [hpc EXCEPT ![s] = "idle"]
    /\ handlerRuns' = Min(handlerRuns + 1, MaxHandlerRuns)
    /\ UNCHANGED <<tree, pc, queueVars, active_processes, mutex, not_empty,
                   running, outVars, localVars, pending, mainVars, histVars>>

\* pthread_cond_wait may return without a signal or broadcast
SpuriousWakeup(p) ==
    /\ p \in not_empty \cup not_full
    /\ not_empty' = not_empty \ {p}
    /\ not_full' = not_full \ {p}
    /\ UNCHANGED <<tree, pc, queueVars, active_processes, mutex, running,
                   outVars, localVars, sigVars, mainVars, histVars>>

QueuePush(p) ==
    \/ push_lock(p)
    \/ push_while(p)
    \/ push_wait(p)
    \/ push_relock(p)
    \/ push_if(p)
    \/ push_insert(p)

QueuePop(w) ==
    \/ pop_lock(w)
    \/ pop_while(w)
    \/ pop_check(w)
    \/ pop_wait(w)
    \/ pop_relock(w)
    \/ pop_after(w)

Worker(w) ==
    \/ w_loop(w)
    \/ QueuePop(w)
    \/ w_break(w)
    \/ w_inc(w)
    \/ w_readdir(w)
    \/ pf_lock(w)
    \/ pf_write(w)
    \/ QueuePush(w)
    \/ w_dec(w)
    \/ w_check(w)
    \/ w_check2(w)

MainThread ==
    \/ QueuePush(Main)
    \/ m_create_ok
    \/ m_create_fail
    \/ m_join
    \/ m_join_uncreated
    \/ m_exit

Handler(s) ==
    \/ h_running(s)
    \/ h_not_empty(s)
    \/ h_not_full(s)

\* every step the program itself takes
ProgramStep ==
    \/ MainThread
    \/ \E w \in Workers : Worker(w)
    \/ \E s \in Signals : Handler(s)

Next ==
    \/ ProgramStep
    \/ \E s \in Signals : ExternalSignal(s)
    \/ \E p \in Procs : SpuriousWakeup(p)

Spec == Init /\ [][Next]_vars

(***************************************************************************)
(* Properties.                                                             *)
(***************************************************************************)
Range(f) == {f[i] : i \in DOMAIN f}

\* worker w holds a directory it has dequeued and not finished expanding:
\* from queue_pop's return of 1 up to the decrement of active_processes
Holding(w) ==
    pc[w] \in {"w_inc", "w_readdir", "pf_lock", "pf_write", "push_lock",
               "push_while", "push_wait", "push_relock", "push_if",
               "push_insert", "w_dec"}

\* the step worker w takes from this state sends the self-termination signal
Declares(w) ==
    \/ pc[w] = "pop_check" /\ TermCond(active_processes, count)
    \/ pc[w] = "w_check2" /\ TermCond(active[w], count)

\* every thread was created and has returned from worker_thread
AllWorkersExited == \A w \in Workers : pc[w] = "done"

\* the program can take no step: what is blocked now stays blocked unless a
\* signal arrives from outside or a wait returns spuriously
Quiescent == ~ENABLED ProgramStep

\* C1: completion is declared only where no more work exists: the queue is
\* empty and no worker holds a dequeued directory it has not finished,
\* one that has not yet incremented active_processes included.
C1_TerminationSound ==
    \A w \in Workers :
        Declares(w) => (count = 0 /\ \A v \in Workers : ~Holding(v))

\* C2: with no external signal and every thread created, the program never
\* comes to rest with a worker still inside its loop (blocked on not_empty
\* or not_full): every worker exits.
C2_AllWorkersExit ==
    (extSignals = 0 /\ ~createFailed /\ Quiescent) => AllWorkersExited

\* the paths of the records in the report
IsPathLine(l) == l.field = "Path"

Reported ==
    LET heads == SelectSeq(output_file, IsPathLine)
    IN  [i \in DOMAIN heads |-> heads[i].rec.path]

\* C3: with no external signal and every lstat succeeding, once all workers
\* have stopped the report holds exactly one record for every entry below
\* the root.
C3_OneRecordPerEntry ==
    (extSignals = 0 /\ tree.gone = {} /\ AllWorkersExited) =>
        /\ Range(Reported) = Entries(tree) \ {RootPath}
        /\ Len(Reported) = Cardinality(Entries(tree) \ {RootPath})

\* C4: once handle_signal has run (every thread having been created), the
\* program does not come to rest with the flag still set or with a thread
\* waiting on not_empty or not_full: every worker that was blocked or about
\* to block returns and exits.
C4_ShutdownReleasesAll ==
    (handlerRuns >= 1 /\ ~createFailed /\ Quiescent) =>
        /\ running = 0
        /\ not_empty = {} /\ not_full = {}
        /\ AllWorkersExited

NoDuplicates(seq) == \A i, j \in DOMAIN seq : seq[i] = seq[j] => i = j

\* C5: while liveness stays true every inserted path is returned by a
\* queue_pop, and by one only: the program does not come to rest, live,
\* with an inserted path never returned.
C5_PushedPoppedOnce ==
    /\ NoDuplicates(popLog)
    /\ Range(popLog) \subseteq Range(pushLog)
    /\ (running = 1 /\ Quiescent) => Range(pushLog) \subseteq Range(popLog)

\* C6: the count stays within 0..QUEUE_SIZE.
C6_CountInRange == 0 <= count /\ count <= QUEUE_SIZE

\* the queue is full and a producer is blocked on not_full
C6_Witness == count = QUEUE_SIZE /\ not_full # {}

\* C7: the paths returned by queue_pop, in the order they were removed, are
\* a prefix of the paths inserted by queue_push, in the order inserted.
C7_Fifo ==
    /\ Len(popLog) <= Len(pushLog)
    /\ popLog = SubSeq(pushLog, 1, Len(popLog))

\* more paths were returned than the buffer has slots: the cursors wrapped
C7_Witness == Len(popLog) > QUEUE_SIZE

\* the step thread p takes from "push_if" when line 70 reads the flag as 0
PushObservesShutdown(p) ==
    pc[p] = "push_if" /\ running = 0 /\ pc'[p] # pc[p]

\* C8 (as amended): a queue_push whose test at line 70 reads liveness false
\* returns without inserting: the cursors, the count and the stored paths
\* are unchanged and no "item available" signal is sent.
C8_DiscardFrame ==
    [][\A p \in Procs :
          PushObservesShutdown(p) =>
              /\ pc'[p] = PushReturn(p)
              /\ UNCHANGED <<paths, front, rear, count, not_empty, pushLog>>
      ]_vars

\* a worker is back in its readdir loop from the queue_push of a
\* sub-directory that was not inserted, the queue still full
C8_Witness ==
    \E w \in Workers :
        /\ pc[w] = "w_readdir"
        /\ dirpos[w] > 2
        /\ IsDir(tree, FullPath(w))
        /\ FullPath(w) \notin Range(pushLog)
        /\ count = QUEUE_SIZE
        /\ running = 0

\* C8 as first stated: the same, and in consequence nothing is inserted
\* once liveness is false.
C8_NoInsertAfterShutdown ==
    [][/\ \A p \in Procs :
             PushObservesShutdown(p) =>
                 /\ pc'[p] = PushReturn(p)
                 /\ UNCHANGED <<paths, front, rear, count, not_empty, pushLog>>
       /\ running = 0 => pushLog' = pushLog
      ]_vars

\* C9: queue_pop returns 0 only where liveness is false and the count is 0;
\* otherwise it returns 1, having removed the path at the front cursor,
\* decremented the count and signalled not_full.
C9_PopResult ==
    [][\A w \in Workers :
          (pc[w] = "pop_after" /\ pc'[w] # pc[w]) =>
              IF pc'[w] = "w_break"
                THEN /\ running = 0 /\ count = 0
                     /\ UNCHANGED <<paths, front, rear, count, popLog>>
                ELSE /\ pc'[w] = "w_inc"
                     /\ count > 0
                     /\ path'[w] = paths[front]
                     /\ popLog' = Append(popLog, paths[front])
                     /\ front' = (front + 1) % QUEUE_SIZE
                     /\ count' = count - 1
                     /\ \/ not_full = {} /\ not_full' = {}
                        \/ \E q \in not_full : not_full' = not_full \ {q}
      ]_vars

\* queue_pop has returned 0 to a worker after paths had been returned
C9_Witness == \E w \in Workers : pc[w] = "w_break" /\ Len(popLog) > 0

\* C10: after handle_signal has run two or more times (every thread having
\* been created) the program comes to rest only with liveness false and
\* every worker thread exited, as after one run.
C10_ShutdownIdempotent ==
    (handlerRuns >= 2 /\ ~createFailed /\ Quiescent) =>
        (running = 0 /\ AllWorkersExited)

\* worker w is in process_file between pthread_mutex_lock(&output_mutex)
\* and pthread_mutex_unlock(&output_mutex)
InRecord(w) == pc[w] = "pf_write"

\* C11: writes to the report are mutually exclusive: at most one worker is
\* between acquiring and releasing output_mutex, the lines of two records
\* are never interleaved (the report is a sequence of whole record blocks,
\* each the lines of one record in order), and a record that was started is
\* complete whenever output_mutex is free.
C11_RecordsAtomic ==
    LET n == Len(RecordLines)
    IN  /\ Cardinality({w \in Workers : InRecord(w)}) <= 1
        /\ \A i \in DOMAIN output_file :
               LET k == ((i - 1) % n) + 1
               IN  output_file[i] = Line(output_file[i - k + 1].rec, k)
        /\ output_mutex = Nobody => Len(output_file) % n = 0
        /\ \A w \in Workers :
               InRecord(w) => /\ output_mutex = w
                              /\ Len(output_file) % n = lineno[w]

\* a worker is part-way through a record while another worker, with a
\* record of its own to write, is kept out, and a whole record is already
\* in the report
C11_Witness ==
    \E w, v \in Workers :
        /\ InRecord(w) /\ lineno[w] > 0
        /\ pc[v] = "pf_lock" /\ LstatOk(tree, FullPath(v))
        /\ Len(output_file) > Len(RecordLines)

\* the root has no children: an empty directory, or not a directory at all
ChildlessRoot == tree \in {TreeEmpty, TreeFile}

\* C12: when the root yields no children, no record is written, nothing
\* but the root itself is ever pushed, and the walk ends cleanly: when the
\* program can take no further step (no signal from outside, every thread
\* created) every worker has exited and main has returned 0.
C12_ChildlessRootExitsClean ==
    (ChildlessRoot /\ extSignals = 0 /\ ~createFailed) =>
        /\ output_file = <<>>
        /\ Range(pushLog) \subseteq {RootPath}
        /\ Len(pushLog) <= 1
        /\ Quiescent => (AllWorkersExited /\ exit_code = 0)

\* C13: a pthread_create failure is fatal: from then on the process never
\* returns 0, and it does not hang either: when the program can take no
\* further step it has ended, with a nonzero exit code.
C13_CreateFailureFatal ==
    createFailed =>
        /\ exit_code # 0
        /\ Quiescent => exit_code \notin {-1, 0}

\* worker w is inside queue_push
InPush(w) ==
    pc[w] \in {"push_lock", "push_while", "push_wait", "push_relock",
               "push_if", "push_insert"}

\* worker w has incremented active_processes for the directory it dequeued
\* and has not yet decremented it: after line 151 and before line 178
Registered(w) ==
    \/ pc[w] \in {"w_readdir", "pf_lock", "pf_write", "w_dec"}
    \/ InPush(w)

\* C14: active_processes equals the number of workers that have registered
\* for a dequeued directory and not yet deregistered; it is never negative
\* and never greater than the number of workers.
C14_InFlightCount ==
    /\ active_processes = Cardinality({w \in Workers : Registered(w)})
    /\ 0 <= active_processes
    /\ active_processes <= MAX_THREADS

\* every worker is registered at once, after each has deregistered before
C14_Witness ==
    /\ active_processes = MAX_THREADS
    /\ Len(popLog) > MAX_THREADS

\* C15: every queue_push a worker issues happens while that worker is
\* registered, so while active_processes >= 1: the increment comes before
\* the first push for a directory and the decrement after the last one.
C15_PushWhileRegistered ==
    \A w \in Workers : InPush(w) => (Registered(w) /\ active_processes >= 1)

\* a worker is about to insert a child while it is the only one registered
C15_Witness ==
    \E w \in Workers :
        /\ pc[w] = "push_insert"
        /\ active_processes = 1
        /\ \E v \in Workers : pc[v] \in {"pop_wait", "pop_relock", "w_check2"}

\* the step thread p takes from this state reads or writes count, front or
\* rear: lines 66, 75-77, 89, 56 (called from line 90 and from line 179,
\* where count is read only once active was found 0), 95 and 100-102
AccessesQueue(p) ==
    \/ pc[p] \in {"push_while", "push_insert"}
    \/ pc[p] \in {"pop_while", "pop_check", "pop_after"}
    \/ pc[p] = "w_check2" /\ active[p] = 0

\* C16: every read or write of the queue's count, front and rear, the reads
\* of the termination check included, is made by a thread that holds the
\* queue mutex.
C16_QueueAccessLocked ==
    \A p \in Procs : AccessesQueue(p) => mutex = p

\* the step thread p takes from this state is the call of pthread_cond_wait
\* at line 91 (on not_empty) or at line 67 (on not_full)
BeginsWaiting(p) == pc[p] \in {"pop_wait", "push_wait"}

\* C17: no thread begins waiting on not_empty or on not_full in a state
\* where the liveness flag is already false.
C17_NoWaitAfterShutdown ==
    \A p \in Procs : BeginsWaiting(p) => running = 1

\* C18 as stated: in every reachable state, the initial one included, both
\* cursors are valid slot indices.
C18_CursorsAlwaysValid ==
    /\ 0 <= front /\ front < QUEUE_SIZE
    /\ 0 <= rear /\ rear < QUEUE_SIZE

\* C18: front is a valid slot index in every reachable state; rear is -1
\* from queue_init until the first insertion (also when the first push was
\* discarded) and a valid slot index from the first insertion on.
C18_CursorsValid ==
    /\ 0 <= front /\ front < QUEUE_SIZE
    /\ IF pushLog = <<>>
         THEN rear = -1
         ELSE 0 <= rear /\ rear < QUEUE_SIZE

\* both cursors have wrapped around the end of the array
C18_Witness ==
    /\ Len(pushLog) > QUEUE_SIZE
    /\ Len(popLog) >= QUEUE_SIZE
    /\ rear = 0
    /\ front = 0

\* C19: count is the number of items inserted minus the number removed,
\* and the items inserted and not yet removed are, in order, what the count
\* slots front, front+1, ..., front+count-1 (modulo QUEUE_SIZE) hold, rear
\* being the last of them: no push has overwritten an item that was not
\* popped, and the slot the next pop returns was written by a push.
C19_ValidWindow ==
    /\ count = Len(pushLog) - Len(popLog)
    /\ \A i \in 0..(count - 1) :
           paths[(front + i) % QUEUE_SIZE] =
               StrNCpy(pushLog[Len(popLog) + 1 + i], MAX_PATH_LENGTH - 1)
    /\ count > 0 => rear = (front + count - 1) % QUEUE_SIZE

\* the queue is full and its window of valid slots wraps around the end
C19_Witness ==
    /\ count = QUEUE_SIZE
    /\ front > 0
    /\ Len(popLog) > QUEUE_SIZE

\* worker w is blocked in pthread_cond_wait(&not_full) at line 67
BlockedOnFull(w) == pc[w] = "push_relock" /\ w \in not_full

\* C20: backpressure never deadlocks the pool: while the flag is true there
\* is no state in which the queue is full, every worker is blocked in
\* queue_push waiting for room, and the program can take no step.
C20_NoBackpressureDeadlock ==
    ~ /\ running = 1
      /\ count >= QUEUE_SIZE
      /\ \A w \in Workers : BlockedOnFull(w)
      /\ Quiescent

====
